---- MODULE Spec2Model ----
(***************************************************************************)
(* Model of the hermes e-mail rendering pipeline (pkg/mails/hermes.go):    *)
(* default merging, template selection / parsing / execution, CSS          *)
(* inlining and HTML-to-text conversion behind GenerateHTML and            *)
(* GeneratePlainText.                                                      *)
(*                                                                         *)
(* Strings that are only stored and compared (brand name, greeting, ...)   *)
(* are TLA+ strings, "" being Go's zero value.  Rendered documents are     *)
(* sequences of chunks, <<>> being Go's "".                                *)
(***************************************************************************)
EXTENDS Integers, Sequences, FiniteSets, TLC

\* ------------------------------------------------------------------ bounds
\* render calls one caller makes one after the other on its Hermes value
MaxCalls == 2
\* render calls each of the two concurrent callers makes
ConcCalls == 1
\* times a default merge is applied to one value
MaxApply == 3

\* ------------------------------------------------------------------ themes
\* The nil Theme interface value (zero value of Hermes.Theme).
NilTheme == "nil"
\* new(themes.Default)
DefaultTheme == "default"
\* Theme implementations a caller can plug in besides the built-in one; they
\* differ in what their templates make the later stages do.
CustomThemes == {"custom", "badsyntax", "badexec", "rawmd", "norender", "noparse"}
Themes == {DefaultTheme} \cup CustomThemes

\* Theme.HTMLTemplate() / Theme.PlainTextTemplate(): the template text of a
\* theme.  Calling a method of a nil interface value panics.
PanicTemplate == [theme |-> NilTheme, fmt |-> "panic"]
HTMLTemplate(theme) ==
    IF theme = NilTheme THEN PanicTemplate ELSE [theme |-> theme, fmt |-> "html"]
PlainTextTemplate(theme) ==
    IF theme = NilTheme THEN PanicTemplate ELSE [theme |-> theme, fmt |-> "text"]

\* ------------------------------------------------------------------ values
\* The two boilerplate defaults, in ASCII (the source has a copyright sign and
\* a typographic apostrophe).
DefaultCopyright == "Copyright (c) 2024 Hermes. All rights reserved."
DefaultTroubleText == "If you're having trouble with the button '{ACTION}', copy and paste the URL below into your web browser."

ZeroBranding ==
    [Name |-> "", Link |-> "", Logo |-> "", Copyright |-> "", TroubleText |-> ""]
ZeroHermes ==
    [Theme |-> NilTheme, Brand |-> ZeroBranding, TextDirection |-> "",
     DisableCSSInlining |-> FALSE]
ZeroBody ==
    [Name |-> "", Intros |-> <<>>, Dictionary |-> <<>>, Table |-> <<>>,
     Actions |-> <<>>, Outros |-> <<>>, Greeting |-> "", Signature |-> "",
     Title |-> "", FreeMarkdown |-> ""]
ZeroEmail == [Body |-> ZeroBody]

\* ------------------------------------------------------------ default merge
\* mergo.Merge(dst, src) without options, field by field: a destination field
\* holding its zero value takes the source's value, any other is kept
\* (mergo sets a field when it is empty in dst and not empty in src).
\* One operator per Go kind (string, slice, interface, bool).
MustSetOverride(dstEmpty, srcEmpty) == ~srcEmpty
MustSet(dstEmpty, srcEmpty) == dstEmpty /\ ~srcEmpty
MergeString(dst, src) == IF MustSet(dst = "", src = "") THEN src ELSE dst
MergeSlice(dst, src) == IF MustSet(dst = <<>>, src = <<>>) THEN src ELSE dst
MergeTheme(dst, src) == IF MustSet(dst = NilTheme, src = NilTheme) THEN src ELSE dst
MergeBool(dst, src) == IF MustSet(dst = FALSE, src = FALSE) THEN src ELSE dst

MergeBranding(dst, src) ==
    [Name        |-> MergeString(dst.Name, src.Name),
     Link        |-> MergeString(dst.Link, src.Link),
     Logo        |-> MergeString(dst.Logo, src.Logo),
     Copyright   |-> MergeString(dst.Copyright, src.Copyright),
     TroubleText |-> MergeString(dst.TroubleText, src.TroubleText)]

MergeHermes(dst, src) ==
    [Theme              |-> MergeTheme(dst.Theme, src.Theme),
     Brand              |-> MergeBranding(dst.Brand, src.Brand),
     TextDirection      |-> MergeString(dst.TextDirection, src.TextDirection),
     DisableCSSInlining |-> MergeBool(dst.DisableCSSInlining, src.DisableCSSInlining)]

MergeBody(dst, src) ==
    [Name         |-> MergeString(dst.Name, src.Name),
     Intros       |-> MergeSlice(dst.Intros, src.Intros),
     Dictionary   |-> MergeSlice(dst.Dictionary, src.Dictionary),
     Table        |-> MergeSlice(dst.Table, src.Table),
     Actions      |-> MergeSlice(dst.Actions, src.Actions),
     Outros       |-> MergeSlice(dst.Outros, src.Outros),
     Greeting     |-> MergeString(dst.Greeting, src.Greeting),
     Signature    |-> MergeString(dst.Signature, src.Signature),
     Title        |-> MergeString(dst.Title, src.Title),
     FreeMarkdown |-> MergeString(dst.FreeMarkdown, src.FreeMarkdown)]

MergeEmail(dst, src) == [Body |-> MergeBody(dst.Body, src.Body)]

\* defaultEmail of SetDefaultEmailValues
defaultEmail ==
    [Body |-> [ZeroBody EXCEPT !.Signature = "Yours truly", !.Greeting = "Hi"]]

\* defaultHermes of SetDefaultHermesValues
defaultHermes ==
    [Theme |-> DefaultTheme,
     Brand |-> [ZeroBranding EXCEPT !.Name = "Hermes",
                                    !.Copyright = DefaultCopyright,
                                    !.TroubleText = DefaultTroubleText],
     TextDirection |-> "ltr",
     DisableCSSInlining |-> FALSE]

\* (e *Email) SetDefaultEmailValues(): the value *e holds afterwards
SetDefaultEmailValues(e) == MergeEmail(e, defaultEmail)

\* (h *Hermes) SetDefaultHermesValues(): the value *h holds afterwards
NoDefaultHermesValues(h) == h
SetDefaultHermesValues(h) == MergeHermes(h, defaultHermes)

\* The fields of a Hermes value, as memory locations, and whether one holds
\* its zero value.
HermesFields ==
    {"Theme", "Brand.Name", "Brand.Link", "Brand.Logo", "Brand.Copyright",
     "Brand.TroubleText", "TextDirection", "DisableCSSInlining"}
FieldEmpty(h, f) ==
    CASE f = "Theme" -> h.Theme = NilTheme
      [] f = "Brand.Name" -> h.Brand.Name = ""
      [] f = "Brand.Link" -> h.Brand.Link = ""
      [] f = "Brand.Logo" -> h.Brand.Logo = ""
      [] f = "Brand.Copyright" -> h.Brand.Copyright = ""
      [] f = "Brand.TroubleText" -> h.Brand.TroubleText = ""
      [] f = "TextDirection" -> h.TextDirection = ""
      [] f = "DisableCSSInlining" -> h.DisableCSSInlining = FALSE

\* The fields of *h that mergo.Merge(h, defaultHermes) sets
FieldsSet(h) ==
    {f \in HermesFields : MustSet(FieldEmpty(h, f), FieldEmpty(defaultHermes, f))}

\* ---------------------------------------------------------------- libraries
\* Go's nil error and the error values the libraries hand back.  premailer
\* (through goquery) and html2text both parse their input with
\* golang.org/x/net/html and return its error unchanged.
ErrNil == "nil"
ErrTemplateParse == "template: parse error"
ErrTemplateExec == "template: exec error"
ErrHTMLParse == "html: parse error"
ErrHTMLRender == "html: render error"
Errors == {ErrTemplateParse, ErrTemplateExec, ErrHTMLParse, ErrHTMLRender}

\* Go's "" as a rendered document
EmptyString == <<>>

\* Markdown.ToHTML: blackfriday.Run on the markdown text
ToHTML(c) ==
    CASE c = "" -> ""
      [] c = "**Hermes** maintenance" -> "<p><strong>Hermes</strong> maintenance</p>"
      [] c = "> _shutdown_" -> "<blockquote><p><em>shutdown</em></p></blockquote>"
      [] OTHER -> "<p>...</p>"

\* The free-markdown part of a theme's template: the themes call
\* .Email.Body.FreeMarkdown.ToHTML while they execute; "rawmd" is a theme
\* that prints the field as it is.
MarkdownChunk(tplt, body) ==
    IF tplt.theme = "rawmd" THEN body.FreeMarkdown ELSE ToHTML(body.FreeMarkdown)

\* What a theme's template prints for the body: the free markdown when set,
\* the structured content otherwise.
BodyChunks(tplt, body) ==
    IF body.FreeMarkdown # ""
    THEN << MarkdownChunk(tplt, body) >>
    ELSE << (IF body.Title # "" THEN body.Title ELSE body.Greeting), body.Name >>
         \o body.Intros \o body.Dictionary \o body.Table \o body.Actions
         \o body.Outros \o << body.Signature >>

\* template.New("hermes").Funcs(...).Parse(tplt): the error
Parse(tplt) == IF tplt.theme = "badsyntax" THEN ErrTemplateParse ELSE ErrNil

\* t.Execute(&b, data): the error, and what the buffer holds afterwards
ExecuteErr(tplt, data) == IF tplt.theme = "badexec" THEN ErrTemplateExec ELSE ErrNil
Execute(tplt, data) ==
    << tplt.theme, tplt.fmt, data.Hermes.Theme, data.Hermes.TextDirection,
       data.Hermes.Brand.Name, data.Hermes.Brand.Link, data.Hermes.Brand.Logo >>
    \o BodyChunks(tplt, data.Email.Body)
    \o << data.Hermes.Brand.Copyright, data.Hermes.Brand.TroubleText >>

\* premailer.NewPremailerFromString(res, ...) followed by prem.Transform():
\* the error and the document with the style rules inlined
PremailerErr(res) ==
    CASE res[1] = "noparse" -> ErrHTMLParse
      [] res[1] = "norender" -> ErrHTMLRender
      [] OTHER -> ErrNil
PremailerTransform(res) == Append(res, "style=inlined")

\* html2text.FromString(template, Options{PrettyTables: true}): html2text
\* returns "" together with every error
Html2TextErr(doc) == IF doc[1] = "noparse" THEN ErrHTMLParse ELSE ErrNil
Html2Text(doc) ==
    IF Html2TextErr(doc) # ErrNil THEN EmptyString ELSE Append(doc, "as plain text")

\* Template{*h, email}: the root object handed to the template engine
TemplatePreconverted(h, email) ==
    [Hermes |-> h,
     Email |-> [Body |-> [email.Body EXCEPT !.FreeMarkdown = ToHTML(@)]]]
Template(h, email) == [Hermes |-> h, Email |-> email]

\* h.DisableCSSInlining as generateTemplate tests it before inlining
NeverSkipInlining(h) == FALSE
SkipInlining(h) == h.DisableCSSInlining

\* The (string, error) pairs the code returns: `return "", err` on a failed
\* stage (partial is what has been rendered so far) and `return res, nil`.
FailWithPartial(partial, err) == [out |-> partial, err |-> err]
Fail(partial, err) == [out |-> EmptyString, err |-> err]
Ok(out) == [out |-> out, err |-> ErrNil]

\* `email Email`: GenerateHTML, GeneratePlainText and generateTemplate take
\* the e-mail by value, so SetDefaultEmailValues fills the callee's copy and
\* the caller's variable keeps what it held.
CallerEmailAliased(caller, merged) == merged
CallerEmailAfterMerge(caller, merged) == caller

\* -------------------------------------------------------------------- state
\* Two callers (goroutines) and two Hermes values they may hold pointers to.
Procs == {1, 2}
HermesIds == {1, 2}

VARIABLES
    hermes,       \* HermesIds -> the Hermes value stored there
    recv,         \* Procs -> the Hermes value the caller's receiver h points to
    callsLeft,    \* Procs -> render calls the caller still makes
    pc,           \* Procs -> where the caller's current call stands
    kind,         \* Procs -> "html" (GenerateHTML) or "text" (GeneratePlainText)
    callerEmail,  \* Procs -> the caller's Email variable
    email,        \* Procs -> the callee's copy of it (the by-value parameter)
    tplt,         \* Procs -> generateTemplate's tplt argument
    buf,          \* Procs -> b / res, then GeneratePlainText's `template`
    ret,          \* Procs -> what the call returned
    obs,          \* Procs -> history of the current call (stages run, their inputs)
    acc,          \* Procs -> shared locations read and written so far
    log,          \* the <<error, failing stage>> pairs returned so far
    hOrig,        \* HermesIds -> the configuration the caller supplied
    mh, me,       \* default merging on its own: the values being merged
    mh0, me0,     \* ... the values given
    applied       \* ... and how often each merge has been applied

vars == << hermes, recv, callsLeft, pc, kind, callerEmail, email, tplt, buf, ret,
           obs, acc, log, hOrig, mh, me, mh0, me0, applied >>
pipeVars == << hermes, recv, callsLeft, pc, kind, callerEmail, email, tplt, buf,
               ret, obs, acc, log, hOrig >>
mergeVars == << mh, me, mh0, me0, applied >>

TemplateFuncs == << 0, "templateFuncs" >>
Loc(id, f) == << id, f >>
AllFields(id) == {Loc(id, f) : f \in HermesFields}

ObsInit ==
    [trace |-> <<>>, execData |-> Template(ZeroHermes, ZeroEmail),
     execOut |-> EmptyString, inlineIn |-> EmptyString, convIn |-> EmptyString,
     failedAt |-> "none"]

\* ------------------------------------------------------------------- inputs
PipelineHermes ==
    {[Theme |-> t,
      Brand |-> [ZeroBranding EXCEPT !.Name = n],
      TextDirection |-> d,
      DisableCSSInlining |-> c] :
        t \in Themes \cup {NilTheme}, n \in {"", "Acme"}, d \in {"", "rtl"},
        c \in BOOLEAN}

PipelineEmails ==
    {[Body |-> [ZeroBody EXCEPT !.Name = "Jon Snow",
                                !.Intros = <<"Welcome to Hermes!">>,
                                !.Actions = <<"123456">>,
                                !.Greeting = g, !.FreeMarkdown = m]] :
        g \in {"", "Hello"}, m \in {"", "**Hermes** maintenance"}}

FullBranding ==
    [Name |-> "Acme", Link |-> "https://example-hermes.com/", Logo |-> "logo.png",
     Copyright |-> "(c) Acme", TroubleText |-> "Trouble with '{ACTION}'?"]
ConcHermes ==
    {ZeroHermes,
     [ZeroHermes EXCEPT !.Theme = "noparse"],
     [Theme |-> DefaultTheme, Brand |-> FullBranding, TextDirection |-> "rtl",
      DisableCSSInlining |-> FALSE],
     [Theme |-> "noparse", Brand |-> FullBranding, TextDirection |-> "ltr",
      DisableCSSInlining |-> TRUE]}
StringInputs(v) == {"", v}
AllHermes ==
    {[Theme |-> t,
      Brand |-> [Name |-> n, Link |-> l, Logo |-> g, Copyright |-> c,
                 TroubleText |-> tt],
      TextDirection |-> d,
      DisableCSSInlining |-> x] :
        t \in {NilTheme, DefaultTheme, "custom"}, n \in StringInputs("Acme"),
        l \in StringInputs("https://example-hermes.com/"),
        g \in StringInputs("logo.png"), c \in StringInputs("(c) Acme"),
        tt \in StringInputs("Trouble with '{ACTION}'?"),
        d \in StringInputs("rtl"), x \in BOOLEAN}
AllEmails ==
    {[Body |-> [Name |-> n, Intros |-> i, Dictionary |-> d, Table |-> t,
                Actions |-> a, Outros |-> o, Greeting |-> g, Signature |-> s,
                Title |-> ti, FreeMarkdown |-> m]] :
        n \in StringInputs("Jon Snow"), i \in {<<>>, <<"Welcome!">>},
        d \in {<<>>, <<"key=value">>}, t \in {<<>>, <<"row 1", "row 2">>},
        a \in {<<>>, <<"123456">>}, o \in {<<>>, <<"Need help?">>},
        g \in StringInputs("Hello"), s \in StringInputs("Regards"),
        ti \in StringInputs("Welcome"), m \in StringInputs("**Hermes** maintenance")}

\* --------------------------------------------------------------------- Init
PipeIdle ==
    /\ pc = [p \in Procs |-> "idle"]
    /\ kind = [p \in Procs |-> "none"]
    /\ callerEmail = [p \in Procs |-> ZeroEmail]
    /\ email = [p \in Procs |-> ZeroEmail]
    /\ tplt = [p \in Procs |-> PanicTemplate]
    /\ buf = [p \in Procs |-> EmptyString]
    /\ ret = [p \in Procs |-> Ok(EmptyString)]
    /\ obs = [p \in Procs |-> ObsInit]
    /\ acc = [p \in Procs |-> [reads |-> {}, writes |-> {}]]
    /\ log = {}
    /\ hOrig = hermes

MergeIdle ==
    /\ mh = ZeroHermes /\ mh0 = ZeroHermes
    /\ me = ZeroEmail /\ me0 = ZeroEmail
    /\ applied = [h |-> 0, e |-> 0]

\* One caller making MaxCalls render calls in a row on its Hermes value.
Init ==
    /\ \E h \in PipelineHermes : hermes = [i \in HermesIds |-> IF i = 1 THEN h ELSE ZeroHermes]
    /\ recv = [p \in Procs |-> p]
    /\ callsLeft = [p \in Procs |-> IF p = 1 THEN MaxCalls ELSE 0]
    /\ PipeIdle
    /\ MergeIdle

\* Two callers running concurrently, on one shared Hermes value or on two.
InitConc ==
    /\ hermes \in [HermesIds -> ConcHermes]
    /\ \E shared \in HermesIds : recv = [p \in Procs |-> IF p = 1 THEN 1 ELSE shared]
    /\ callsLeft = [p \in Procs |-> ConcCalls]
    /\ PipeIdle
    /\ MergeIdle

\* ------------------------------------------------------------------ actions
h(p) == hermes[recv[p]]

Note(p, stage) == [obs[p] EXCEPT !.trace = Append(@, stage)]

\* A call ends: the pair it returns, and, for a failure, the stage it is from
Return(p, r, o, stage) ==
    /\ ret' = [ret EXCEPT ![p] = r]
    /\ pc' = [pc EXCEPT ![p] = "returned"]
    /\ obs' = [obs EXCEPT ![p] = [o EXCEPT !.failedAt = stage]]
    /\ log' = IF r.err # ErrNil THEN log \cup {<< r.err, stage >>} ELSE log

\* The caller calls h.GenerateHTML(e) or h.GeneratePlainText(e).
Call(p, k, e) ==
    /\ pc[p] = "idle"
    /\ callsLeft[p] > 0
    /\ pc' = [pc EXCEPT ![p] = "SetDefaultHermesValues"]
    /\ kind' = [kind EXCEPT ![p] = k]
    /\ callerEmail' = [callerEmail EXCEPT ![p] = e]
    /\ email' = [email EXCEPT ![p] = e]
    /\ tplt' = [tplt EXCEPT ![p] = PanicTemplate]
    /\ buf' = [buf EXCEPT ![p] = EmptyString]
    /\ ret' = [ret EXCEPT ![p] = Ok(EmptyString)]
    /\ obs' = [obs EXCEPT ![p] = ObsInit]
    /\ UNCHANGED << hermes, recv, callsLeft, acc, log, hOrig >>

GenerateHTML(p) == \E e \in PipelineEmails : Call(p, "html", e)

GeneratePlainText(p) == \E e \in PipelineEmails : Call(p, "text", e)

\* err := h.SetDefaultHermesValues(): mergo reads every field of *h and sets
\* the ones it fills; it returns no error for two values of one struct type.
StepSetDefaultHermesValues(p) ==
    /\ pc[p] = "SetDefaultHermesValues"
    /\ hermes' = [hermes EXCEPT ![recv[p]] = SetDefaultHermesValues(@)]
    /\ acc' = [acc EXCEPT ![p] =
                 [reads |-> @.reads \cup AllFields(recv[p]),
                  writes |-> @.writes \cup {Loc(recv[p], f) : f \in FieldsSet(h(p))}]]
    /\ obs' = [obs EXCEPT ![p] = Note(p, "mergeEngine")]
    /\ pc' = [pc EXCEPT ![p] = "Theme"]
    /\ UNCHANGED << recv, callsLeft, kind, callerEmail, email, tplt, buf, ret,
                    log, hOrig >>

\* h.Theme.HTMLTemplate() / h.Theme.PlainTextTemplate(): the argument of
\* generateTemplate; a nil Theme panics.
StepTheme(p) ==
    /\ pc[p] = "Theme"
    /\ LET t == IF kind[p] = "html" THEN HTMLTemplate(h(p).Theme)
                                    ELSE PlainTextTemplate(h(p).Theme)
       IN /\ tplt' = [tplt EXCEPT ![p] = t]
          /\ pc' = [pc EXCEPT ![p] =
                      IF t = PanicTemplate THEN "panicked" ELSE "SetDefaultEmailValues"]
    /\ acc' = [acc EXCEPT ![p].reads = @ \cup {Loc(recv[p], "Theme")}]
    /\ UNCHANGED << hermes, recv, callsLeft, kind, callerEmail, email, buf, ret,
                    obs, log, hOrig >>

\* err := email.SetDefaultEmailValues(), on generateTemplate's own copy
StepSetDefaultEmailValues(p) ==
    /\ pc[p] = "SetDefaultEmailValues"
    /\ email' = [email EXCEPT ![p] = SetDefaultEmailValues(@)]
    /\ callerEmail' = [callerEmail EXCEPT ![p] = CallerEmailAfterMerge(@, email'[p])]
    /\ obs' = [obs EXCEPT ![p] = Note(p, "mergeEmail")]
    /\ pc' = [pc EXCEPT ![p] = "Parse"]
    /\ UNCHANGED << hermes, recv, callsLeft, kind, tplt, buf, ret, acc, log, hOrig >>

\* t, err := template.New("hermes").Funcs(...).Funcs(templateFuncs)...Parse(tplt)
StepParse(p) ==
    /\ pc[p] = "Parse"
    /\ acc' = [acc EXCEPT ![p].reads = @ \cup {TemplateFuncs}]
    /\ IF Parse(tplt[p]) # ErrNil
       THEN Return(p, Fail(buf[p], Parse(tplt[p])), Note(p, "parse"), "parse")
       ELSE /\ pc' = [pc EXCEPT ![p] = "Execute"]
            /\ obs' = [obs EXCEPT ![p] = Note(p, "parse")]
            /\ UNCHANGED << ret, log >>
    /\ UNCHANGED << hermes, recv, callsLeft, kind, callerEmail, email, tplt, buf, hOrig >>

\* err = t.Execute(&b, Template{*h, email}); res := b.String()
StepExecute(p) ==
    /\ pc[p] = "Execute"
    /\ acc' = [acc EXCEPT ![p].reads = @ \cup AllFields(recv[p])]
    /\ LET data == Template(h(p), email[p])
           err == ExecuteErr(tplt[p], data)
           out == Execute(tplt[p], data)
           o == [Note(p, "execute") EXCEPT !.execData = data]
       IN IF err # ErrNil
          THEN /\ Return(p, Fail(buf[p], err), o, "execute")
               /\ buf' = buf
          ELSE /\ buf' = [buf EXCEPT ![p] = out]
               /\ obs' = [obs EXCEPT ![p] = [o EXCEPT !.execOut = out]]
               /\ pc' = [pc EXCEPT ![p] = "Inline"]
               /\ UNCHANGED << ret, log >>
    /\ UNCHANGED << hermes, recv, callsLeft, kind, callerEmail, email, tplt, hOrig >>

\* The rest of generateTemplate: res as it is when h.DisableCSSInlining,
\* the premailer's output otherwise; then what the entry point does with what
\* generateTemplate returned: GenerateHTML returns it, GeneratePlainText
\* returns "", err on an error and goes on to html2text otherwise.
StepInlineCSS(p) ==
    /\ pc[p] = "Inline"
    /\ acc' = [acc EXCEPT ![p].reads = @ \cup {Loc(recv[p], "DisableCSSInlining")}]
    /\ LET skip == SkipInlining(h(p))
           err == IF skip THEN ErrNil ELSE PremailerErr(buf[p])
           gt == IF skip THEN Ok(buf[p])
                 ELSE IF err # ErrNil THEN Fail(buf[p], err)
                 ELSE Ok(PremailerTransform(buf[p]))
           o == IF skip THEN obs[p]
                ELSE [Note(p, "inline") EXCEPT !.inlineIn = buf[p]]
       IN IF kind[p] = "html"
          THEN /\ Return(p, gt, o, IF err # ErrNil THEN "inline" ELSE "none")
               /\ buf' = buf
          ELSE IF gt.err # ErrNil
          THEN /\ Return(p, Fail(gt.out, gt.err), o, "inline")
               /\ buf' = buf
          ELSE /\ buf' = [buf EXCEPT ![p] = gt.out]
               /\ obs' = [obs EXCEPT ![p] = o]
               /\ pc' = [pc EXCEPT ![p] = "Html2Text"]
               /\ UNCHANGED << ret, log >>
    /\ UNCHANGED << hermes, recv, callsLeft, kind, callerEmail, email, tplt, hOrig >>

\* return html2text.FromString(template, html2text.Options{PrettyTables: true})
StepHtml2Text(p) ==
    /\ pc[p] = "Html2Text"
    /\ LET err == Html2TextErr(buf[p])
           o == [Note(p, "text") EXCEPT !.convIn = buf[p]]
       IN Return(p, [out |-> Html2Text(buf[p]), err |-> err], o,
                 IF err # ErrNil THEN "text" ELSE "none")
    /\ UNCHANGED << hermes, recv, callsLeft, kind, callerEmail, email, tplt, buf,
                    acc, hOrig >>

\* The caller has its result (or the panic has unwound) and goes on; the
\* call's parameters and locals are gone.
Done(p) ==
    /\ pc[p] \in {"returned", "panicked"}
    /\ pc' = [pc EXCEPT ![p] = "idle"]
    /\ callsLeft' = [callsLeft EXCEPT ![p] = @ - 1]
    /\ kind' = [kind EXCEPT ![p] = "none"]
    /\ email' = [email EXCEPT ![p] = ZeroEmail]
    /\ tplt' = [tplt EXCEPT ![p] = PanicTemplate]
    /\ buf' = [buf EXCEPT ![p] = EmptyString]
    /\ ret' = [ret EXCEPT ![p] = Ok(EmptyString)]
    /\ obs' = [obs EXCEPT ![p] = ObsInit]
    /\ UNCHANGED << hermes, recv, callerEmail, acc, log, hOrig >>

Next ==
    \E p \in Procs :
        \/ GenerateHTML(p)
        \/ GeneratePlainText(p)
        \/ StepSetDefaultHermesValues(p)
        \/ StepTheme(p)
        \/ StepSetDefaultEmailValues(p)
        \/ StepParse(p)
        \/ StepExecute(p)
        \/ StepInlineCSS(p)
        \/ StepHtml2Text(p)
        \/ Done(p)

PipeNext == Next /\ UNCHANGED mergeVars

Spec == Init /\ [][PipeNext]_vars
SpecConc == InitConc /\ [][PipeNext]_vars

\* ------------------------------------------------- default merging, on its own
\* SetDefaultHermesValues and SetDefaultEmailValues as functions of their
\* receiver, applied to every input of AllHermes and AllEmails, repeatedly.
InitMerge ==
    /\ \/ mh0 \in AllHermes /\ me0 = ZeroEmail
       \/ mh0 = ZeroHermes /\ me0 \in AllEmails
    /\ mh = mh0
    /\ me = me0
    /\ applied = [h |-> 0, e |-> 0]
    /\ hermes = [i \in HermesIds |-> ZeroHermes]
    /\ recv = [p \in Procs |-> p]
    /\ callsLeft = [p \in Procs |-> 0]
    /\ PipeIdle

ApplySetDefaultHermesValues ==
    /\ applied.h < MaxApply
    /\ mh' = SetDefaultHermesValues(mh)
    /\ applied' = [applied EXCEPT !.h = @ + 1]
    /\ UNCHANGED << me, mh0, me0 >>

ApplySetDefaultEmailValues ==
    /\ applied.e < MaxApply
    /\ me' = SetDefaultEmailValues(me)
    /\ applied' = [applied EXCEPT !.e = @ + 1]
    /\ UNCHANGED << mh, mh0, me0 >>

NextMerge ==
    /\ \/ ApplySetDefaultHermesValues
       \/ ApplySetDefaultEmailValues
    /\ UNCHANGED pipeVars

SpecMerge == InitMerge /\ [][NextMerge]_vars

\* =================================================================== claims
IsPrefix(s, t) == Len(s) <= Len(t) /\ \A i \in 1..Len(s) : s[i] = t[i]
Ran(p, stage) == \E i \in 1..Len(obs[p].trace) : obs[p].trace[i] = stage
HermesPopulated(x) ==
    /\ x.Theme # NilTheme /\ x.TextDirection # ""
    /\ x.Brand.Name # "" /\ x.Brand.Copyright # "" /\ x.Brand.TroubleText # ""
EmailPopulated(x) == x.Body.Greeting # "" /\ x.Body.Signature # ""

\* C1 (as the claim states it): GeneratePlainText runs merge engine defaults,
\* merge email defaults, render, convert to text, in this order and nothing
\* else; the CSS inliner never runs in a plain-text call, the converter's
\* input is the template renderer's output, and no plain-text call fails in
\* the inlining stage.
C1_PlainTextNeverInlines ==
    \A p \in Procs :
        kind[p] = "text" =>
            /\ IsPrefix(obs[p].trace,
                        << "mergeEngine", "mergeEmail", "parse", "execute", "text" >>)
            /\ ~Ran(p, "inline")
            /\ Ran(p, "text") => obs[p].convIn = obs[p].execOut
            /\ obs[p].failedAt # "inline"

\* C2: with DisableCSSInlining set, GenerateHTML never runs the inliner,
\* never fails in the inlining stage, and what it returns on success is the
\* string template execution produced, unchanged.
C2_DisabledInliningPassthrough ==
    \A p \in Procs :
        (kind[p] = "html" /\ hOrig[recv[p]].DisableCSSInlining) =>
            /\ ~Ran(p, "inline")
            /\ obs[p].failedAt \notin {"inline", "text"}
            /\ pc[p] = "returned" =>
                  \/ ret[p].err = ErrNil /\ ret[p].out = obs[p].execOut
                                         /\ Ran(p, "execute")
                  \/ ret[p].err # ErrNil /\ obs[p].failedAt \in {"parse", "execute"}

\* C2 witness: an HTML call with the flag set has returned the rendered
\* template of a theme whose output the inliner would have rejected.
C2_Witness ==
    \E p \in Procs :
        /\ kind[p] = "html" /\ pc[p] = "returned"
        /\ hOrig[recv[p]].DisableCSSInlining
        /\ tplt[p].theme \in {"norender", "noparse"}
        /\ PremailerErr(obs[p].execOut) # ErrNil
        /\ ret[p].err = ErrNil
        /\ ret[p].out = obs[p].execOut /\ ret[p].out # EmptyString

\* C3: after default merging every defaultable field that was zero holds its
\* fixed default, and every other field, defaultable or not, holds what the
\* caller gave; a field given as its zero value counts as unset.
C3_DefaultsFillOnlyZeroFields ==
    /\ applied.h >= 1 =>
        /\ mh.Theme = (IF mh0.Theme = NilTheme THEN "default" ELSE mh0.Theme)
        /\ mh.TextDirection = (IF mh0.TextDirection = "" THEN "ltr" ELSE mh0.TextDirection)
        /\ mh.Brand.Name = (IF mh0.Brand.Name = "" THEN "Hermes" ELSE mh0.Brand.Name)
        /\ mh.Brand.Copyright =
              (IF mh0.Brand.Copyright = "" THEN DefaultCopyright ELSE mh0.Brand.Copyright)
        /\ mh.Brand.TroubleText =
              (IF mh0.Brand.TroubleText = "" THEN DefaultTroubleText
                                             ELSE mh0.Brand.TroubleText)
        /\ mh.Brand.Link = mh0.Brand.Link
        /\ mh.Brand.Logo = mh0.Brand.Logo
        /\ mh.DisableCSSInlining = mh0.DisableCSSInlining
    /\ applied.e >= 1 =>
        /\ me.Body.Greeting = (IF me0.Body.Greeting = "" THEN "Hi" ELSE me0.Body.Greeting)
        /\ me.Body.Signature =
              (IF me0.Body.Signature = "" THEN "Yours truly" ELSE me0.Body.Signature)
        /\ me.Body.Intros = me0.Body.Intros
        /\ me.Body.Dictionary = me0.Body.Dictionary
        /\ me.Body.Outros = me0.Body.Outros
        /\ me.Body.Name = me0.Body.Name
        /\ me.Body.Title = me0.Body.Title
        /\ me.Body.Table = me0.Body.Table
        /\ me.Body.Actions = me0.Body.Actions
        /\ me.Body.FreeMarkdown = me0.Body.FreeMarkdown

\* C3 witness: a configuration with some fields set and some left zero has
\* been merged: the zero ones hold defaults, the set ones are kept.
C3_Witness ==
    /\ applied.h >= 1
    /\ mh0.Theme = NilTheme /\ mh.Theme = DefaultTheme
    /\ mh0.Brand.Name = "" /\ mh.Brand.Name = "Hermes"
    /\ mh0.Brand.Copyright # "" /\ mh.Brand.Copyright = mh0.Brand.Copyright
    /\ mh0.Brand.Link # "" /\ mh.Brand.Link = mh0.Brand.Link
    /\ mh0.DisableCSSInlining /\ mh.DisableCSSInlining

\* C4: a default merge applied to a fully populated value, in particular to
\* the result of an earlier merge, leaves the value as it is, however often
\* it is applied.
C4_MergeIdempotent ==
    [][ /\ (applied'.h > applied.h /\ (applied.h >= 1 \/ HermesPopulated(mh)))
            => mh' = mh
        /\ (applied'.e > applied.e /\ (applied.e >= 1 \/ EmailPopulated(me)))
            => me' = me ]_vars

\* C4 witness: a merge that changed its input has been applied three times.
C4_Witness ==
    /\ applied.h = 3
    /\ mh # mh0
    /\ mh = SetDefaultHermesValues(mh0)

\* C5: a call that returns an error returns the empty string with it, the
\* failing stage is the last stage that ran, and a call that returns no error
\* had no failing stage.
C5_ErrorAbortsWithEmptyOutput ==
    \A p \in Procs :
        pc[p] = "returned" =>
            IF ret[p].err # ErrNil
            THEN /\ ret[p].out = EmptyString
                 /\ obs[p].failedAt # "none"
                 /\ obs[p].trace # <<>>
                 /\ obs[p].trace[Len(obs[p].trace)] = obs[p].failedAt
            ELSE obs[p].failedAt = "none"

\* C5 witness: a call failed in the inlining stage after the template had
\* been rendered, and returned the empty string.
C5_Witness ==
    \E p \in Procs :
        /\ pc[p] = "returned"
        /\ obs[p].failedAt = "inline"
        /\ obs[p].execOut # EmptyString
        /\ ret[p].err # ErrNil
        /\ ret[p].out = EmptyString

\* C6 (as the claim states it): the error a call returns tells the stage that
\* failed: no error value is returned for failures of two different stages.
C6_ErrorTellsStage ==
    \A a \in log : \A b \in log : a[1] = b[1] => a[2] = b[2]

\* C7: GenerateHTML runs merge engine defaults, merge email defaults, parse,
\* execute, inline, in this order; it inlines exactly when inlining is not
\* disabled; the template is the HTML template of the merged configuration's
\* theme (the built-in default theme when Theme was unset); and the
\* configuration and the e-mail handed to template execution are merged ones.
C7_HTMLStageOrder ==
    \A p \in Procs :
        /\ pc[p] # "panicked"
        /\ kind[p] = "html" =>
            /\ IsPrefix(obs[p].trace,
                        << "mergeEngine", "mergeEmail", "parse", "execute", "inline" >>)
            /\ pc[p] \notin {"idle", "SetDefaultHermesValues", "Theme"} =>
                  tplt[p] = [theme |-> (IF hOrig[recv[p]].Theme = NilTheme
                                        THEN "default" ELSE hOrig[recv[p]].Theme),
                             fmt |-> "html"]
            /\ Ran(p, "execute") =>
                  /\ HermesPopulated(obs[p].execData.Hermes)
                  /\ EmailPopulated(obs[p].execData.Email)
            /\ Ran(p, "inline") => ~hOrig[recv[p]].DisableCSSInlining
            /\ (pc[p] = "returned" /\ ret[p].err = ErrNil
                   /\ ~hOrig[recv[p]].DisableCSSInlining) => Ran(p, "inline")

\* C7 witness: an HTML call on a configuration without a theme has run all
\* five stages and returned the default theme's inlined HTML.
C7_Witness ==
    \E p \in Procs :
        /\ kind[p] = "html" /\ pc[p] = "returned" /\ ret[p].err = ErrNil
        /\ hOrig[recv[p]].Theme = NilTheme
        /\ tplt[p] = [theme |-> DefaultTheme, fmt |-> "html"]
        /\ obs[p].trace = << "mergeEngine", "mergeEmail", "parse", "execute", "inline" >>
        /\ callerEmail[p].Body.Greeting = ""
        /\ obs[p].execData.Email.Body.Greeting = "Hi"

\* C8: when the two callers use different Hermes values, or share one that
\* is fully populated, no caller writes a location the other reads or writes.
NoRace ==
    \A p \in Procs : \A q \in Procs \ {p} :
        acc[p].writes \cap (acc[q].reads \cup acc[q].writes) = {}
C8_NoRaceWhenIndependentOrReadOnly ==
    (recv[1] # recv[2] \/ HermesPopulated(hOrig[recv[1]])) => NoRace

\* C8 witness: both callers have finished a call on one shared, fully
\* populated Hermes value, each having read its fields.
C8_Witness ==
    /\ recv[1] = recv[2]
    /\ HermesPopulated(hOrig[recv[1]])
    /\ \A p \in Procs : pc[p] = "returned" /\ AllFields(recv[p]) \subseteq acc[p].reads
    /\ TemplateFuncs \in acc[1].reads \cap acc[2].reads

\* C9: whatever calls came before, a call returns what a first call on the
\* caller-supplied configuration returns for the same e-mail; the Hermes
\* value only ever holds the caller's configuration or its default-filled
\* form; and no step of a call changes the caller's Email variable.
FirstCallOutcome(h0, e0, k) ==
    LET hm == SetDefaultHermesValues(h0)
        em == SetDefaultEmailValues(e0)
        t == IF k = "html" THEN HTMLTemplate(hm.Theme) ELSE PlainTextTemplate(hm.Theme)
        data == Template(hm, em)
        res == Execute(t, data)
        gt == IF SkipInlining(hm) THEN Ok(res)
              ELSE IF PremailerErr(res) # ErrNil THEN Fail(res, PremailerErr(res))
              ELSE Ok(PremailerTransform(res))
    IN  IF Parse(t) # ErrNil THEN Fail(EmptyString, Parse(t))
        ELSE IF ExecuteErr(t, data) # ErrNil THEN Fail(EmptyString, ExecuteErr(t, data))
        ELSE IF k = "html" \/ gt.err # ErrNil THEN [out |-> gt.out, err |-> gt.err]
        ELSE [out |-> Html2Text(gt.out), err |-> Html2TextErr(gt.out)]
C9_CallsIndependentOfHistory ==
    /\ [](\A p \in Procs :
            /\ pc[p] = "returned" =>
                  ret[p] = FirstCallOutcome(hOrig[recv[p]], callerEmail[p], kind[p])
            /\ hermes[recv[p]] \in {hOrig[recv[p]], SetDefaultHermesValues(hOrig[recv[p]])})
    /\ [][\A p \in Procs : pc[p] # "idle" => callerEmail'[p] = callerEmail[p]]_vars

\* C9 witness: a second call on a Hermes value that the first call filled in
\* place has returned, for an e-mail with fields left unset.
C9_Witness ==
    /\ callsLeft[1] < MaxCalls
    /\ pc[1] = "returned" /\ ret[1].err = ErrNil
    /\ hermes[1] # hOrig[1]
    /\ callerEmail[1].Body.Greeting = ""
    /\ email[1].Body.Greeting = "Hi"

====
